---- MODULE Spec2Model ----
(***************************************************************************)
(* Engine session of the chess analyzer: StockfishEngine (one engine       *)
(* handle guarded by engine_lock) and ChessAnalyzer.analyze_position, the  *)
(* wrapper that validates the notation and forwards to get_best_move.      *)
(* Every thread runs the methods statement by statement; an engine         *)
(* operation (popen_uci, configure, analyse, play, quit) starts with a     *)
(* call step and ends with a return or a raise step, so that two threads   *)
(* can be inside engine operations at once unless the lock prevents it.    *)
(***************************************************************************)
EXTENDS Integers, Sequences, FiniteSets, TLC

\* ---------------------------------------------------------------- bounds
NThreads == 2
MaxCalls == 2
MaxSpawn == 2
MaxPieces == 2
MaxContours == 3
MaxMate == 3
MaxCp == 150
MaxCycles == 2

Threads == 1..NThreads
Pids == 1..MaxSpawn

\* ------------------------------------------------------ program constants
\* self.engine = None
NoEngine == 0
\* threading.Lock() starts unlocked; otherwise lock holds the owning thread
Unlocked == 0
\* Python None for the integer-valued "depth" key
DepthNone == -1
\* Python None for the string-valued keys
None == "None"

\* ------------------------------------------------------------- notation
InvalidFen == "invalid-fen-string"
EmptyFen == "8/8/8/8/8/8/8/8 w KQkq - 0 1"
StartFen == "rnbqkbnr/pppppppp/8/8/8/8/PPPPPPPP/RNBQKBNR w KQkq - 0 1"
Fens == {InvalidFen, EmptyFen, StartFen}

PieceSymbols == {"p", "n", "b", "r", "q", "k", "P", "N", "B", "R", "Q", "K"}
DigitValue == [d \in {"1", "2", "3", "4", "5", "6", "7", "8"} |->
                 CASE d = "1" -> 1 [] d = "2" -> 2 [] d = "3" -> 3 [] d = "4" -> 4
                   [] d = "5" -> 5 [] d = "6" -> 6 [] d = "7" -> 7 [] d = "8" -> 8]

\* The placement field of a notation string split at "/", each row split
\* into its characters (the first steps of chess.Board(fen)).
Rows(f) ==
  CASE f = InvalidFen ->
         << <<"i", "n", "v", "a", "l", "i", "d", "-", "f", "e", "n", "-",
              "s", "t", "r", "i", "n", "g">> >>
    [] f = EmptyFen ->
         << <<"8">>, <<"8">>, <<"8">>, <<"8">>, <<"8">>, <<"8">>, <<"8">>, <<"8">> >>
    [] f = StartFen ->
         << <<"r", "n", "b", "q", "k", "b", "n", "r">>,
            <<"p", "p", "p", "p", "p", "p", "p", "p">>,
            <<"8">>, <<"8">>, <<"8">>, <<"8">>,
            <<"P", "P", "P", "P", "P", "P", "P", "P">>,
            <<"R", "N", "B", "Q", "K", "B", "N", "R">> >>

RECURSIVE RowWidth(_)
RowWidth(row) ==
  IF row = <<>> THEN 0
  ELSE (IF Head(row) \in DOMAIN DigitValue THEN DigitValue[Head(row)] ELSE 1)
       + RowWidth(Tail(row))

RowOk(row) ==
  /\ \A i \in 1..Len(row) : row[i] \in PieceSymbols \cup DOMAIN DigitValue
  /\ \A i \in 1..(Len(row) - 1) :
       ~(row[i] \in DOMAIN DigitValue /\ row[i + 1] \in DOMAIN DigitValue)
  /\ RowWidth(row) = 8

\* chess.Board(fen) returns a board (TRUE) or raises ValueError (FALSE): it
\* checks the syntax of the notation, not the legality of the position.
BoardParses(f) ==
  /\ Len(Rows(f)) = 8
  /\ \A r \in 1..8 : RowOk(Rows(f)[r])

\* ----------------------------------------------------------- text values
\* a Python string kept as the sequence of its characters, and its text
RECURSIVE Text(_)
Text(chars) == IF chars = <<>> THEN "" ELSE Head(chars) \o Text(Tail(chars))

\* --------------------------------------------------------- board detector
Index == 0..7
Luminance == 0..255
\* line 194: the band of an empty square
LowerBound == 90
UpperBound == 170

\* line 140: board = [[' ' for _ in range(8)] for _ in range(8)]
BlankBoard == [r \in Index |-> [c \in Index |-> " "]]

\* lines 191-203: _detect_piece_on_square, from the mean brightness of a square
DetectPieceOnSquare(avg_brightness) ==
  IF LowerBound < avg_brightness /\ avg_brightness < UpperBound
  THEN " "
  ELSE IF avg_brightness >= UpperBound THEN "P" ELSE "p"

\* lines 143-160: the board after the first n iterations of the loops over
\* row and col: the label of image cell (row, col) is in board[7-row][col]
\* (a label is never the empty text, so "if piece" always stores it)
ClassifyCells(img, n) ==
  [r \in Index |-> [c \in Index |->
     IF 8 * (7 - r) + c < n
     THEN DetectPieceOnSquare(img[7 - r][c])
     ELSE BlankBoard[r][c]]]

\* (variant: the run of empty squares is dropped instead of written)
DropEmpty(empty_count) == <<>>
\* lines 222-224 and 226-227: the pending run of empty squares is written
FlushEmpty(empty_count) ==
  IF empty_count > 0 THEN << ToString(empty_count) >> ELSE <<>>

\* lines 217-227: one row of the board, from column col on
RECURSIVE RowToFen(_, _, _)
RowToFen(boardRow, col, empty_count) ==
  IF col = 8 THEN FlushEmpty(empty_count)
  ELSE IF boardRow[col] = " "
       THEN RowToFen(boardRow, col + 1, empty_count + 1)
       ELSE FlushEmpty(empty_count) \o << boardRow[col] >>
              \o RowToFen(boardRow, col + 1, 0)

\* lines 216-229: the rows of the board from row on, "/" between them
RECURSIVE PlacementToFen(_, _)
PlacementToFen(board, row) ==
  IF row = 8 THEN <<>>
  ELSE RowToFen(board[row], 0, 0)
         \o (IF row < 7 THEN << "/" >> ELSE <<>>)
         \o PlacementToFen(board, row + 1)

\* line 232: " w KQkq - 0 1"
FenSuffix == << " ", "w", " ", "K", "Q", "k", "q", " ", "-", " ", "0", " ", "1" >>

\* lines 205-234: _board_to_fen
BoardToFen(board) == PlacementToFen(board, 0) \o FenSuffix

\* line 169: the notation of the initial position
FallbackFen ==
  << "r", "n", "b", "q", "k", "b", "n", "r", "/",
     "p", "p", "p", "p", "p", "p", "p", "p", "/",
     "8", "/", "8", "/", "8", "/", "8", "/",
     "P", "P", "P", "P", "P", "P", "P", "P", "/",
     "R", "N", "B", "Q", "K", "B", "N", "R" >> \o FenSuffix

\* (variant: the handler serializes the board filled so far)
SerializePartial(board) == BoardToFen(board)
\* lines 166-169: the except handler's return value
ExceptFen(board) == FallbackFen

\* lines 134-169: get_position_fen when slicing or classifying cell number
\* failAt raises (0: no cell raises): the flag of the handler and the value
GetPositionFenResult(img, failAt) ==
  IF failAt = 0
  THEN [failed |-> FALSE, value |-> BoardToFen(ClassifyCells(img, 64))]
  ELSE [failed |-> TRUE, value |-> ExceptFen(ClassifyCells(img, failAt - 1))]

\* board images: one brightness everywhere
UniformImage(l) == [r \in Index |-> [c \in Index |-> l]]
\* a mid-band board with the cells of cs (numbered 0..63 row by row)
\* repainted with the brightness ls gives them
PaintedImage(cs, ls) ==
  [r \in Index |-> [c \in Index |->
     IF \E i \in 1..Len(cs) : cs[i] = 8 * r + c
     THEN ls[CHOOSE i \in 1..Len(cs) : cs[i] = 8 * r + c]
     ELSE 130]]
\* the cells that get repainted: first, middle and last rows, at the
\* edges of a row and next to each other
PieceCells == { 8 * r + c : r \in {0, 3, 7}, c \in {0, 1, 6, 7} }
RECURSIVE CellChoices(_)
CellChoices(k) ==
  IF k = 0 THEN { <<>> }
  ELSE LET shorter == CellChoices(k - 1)
       IN shorter \cup
          { Append(cs, c) : cs \in { x \in shorter : Len(x) = k - 1 },
                            c \in PieceCells }
SortedChoices == { cs \in CellChoices(MaxPieces) :
                     \A i \in 1..(Len(cs) - 1) : cs[i] < cs[i + 1] }
PaintedImages ==
  UNION { { PaintedImage(cs, ls) : ls \in [1..Len(cs) -> {60, 200}] } :
          cs \in SortedChoices }
\* boards with full and mixed rows
BusyImages ==
  { [r \in Index |-> [c \in Index |-> IF (r + c) % 2 = 0 THEN 200 ELSE 60]],
    [r \in Index |-> [c \in Index |-> IF r < 2 THEN 60 ELSE IF r > 5 THEN 200 ELSE 130]],
    [r \in Index |-> [c \in Index |-> IF c \in {0, 1, 4} THEN 130 ELSE IF r = c THEN 60 ELSE 200]] }
Images == { UniformImage(l) : l \in Luminance } \cup PaintedImages \cup BusyImages

\* -------------------------------------------------------- board geometry
\* line 25: self.min_board_size
MinBoardSize == 200

\* what cv2 reports of one contour: len(approx), cv2.contourArea(contour)
\* and, for a quadrilateral, the points of approx as (x, y)
ContourKinds ==
  { [vertices |-> 3, area |-> 50000, points |-> <<>>],
    [vertices |-> 5, area |-> 90000, points |-> <<>>],
    [vertices |-> 4, area |-> 39999,
     points |-> << <<0, 0>>, <<0, 199>>, <<201, 199>>, <<201, 0>> >>],
    [vertices |-> 4, area |-> 40000,
     points |-> << <<5, 5>>, <<5, 205>>, <<205, 205>>, <<205, 5>> >>],
    [vertices |-> 4, area |-> 44100,
     points |-> << <<220, 10>>, <<10, 10>>, <<10, 220>>, <<220, 220>> >>],
    [vertices |-> 4, area |-> 45000,
     points |-> << <<40, 30>>, <<40, 180>>, <<340, 180>>, <<340, 30>> >>],
    [vertices |-> 4, area |-> 65000,
     points |-> << <<260, 300>>, <<0, 280>>, <<10, 20>>, <<250, 40>> >>] }

RECURSIVE ContourLists(_)
ContourLists(n) ==
  IF n = 0 THEN { <<>> }
  ELSE LET shorter == ContourLists(n - 1)
       IN shorter \cup { Append(cs, k) : cs \in { x \in shorter : Len(x) = n - 1 },
                                        k \in ContourKinds }

\* (variant: an area equal to the threshold is accepted too)
QualifiesFromThreshold(contour) ==
  contour.vertices = 4 /\ contour.area >= MinBoardSize * MinBoardSize
\* line 72: four corners and an area above min_board_size squared
Qualifies(contour) ==
  contour.vertices = 4 /\ contour.area > MinBoardSize * MinBoardSize

\* sorted(items, key=...): Python's sort is stable
StableSort(items, keys) ==
  LET n == Len(items)
      rank(i) == 1 + Cardinality({ j \in 1..n : \/ keys[j] < keys[i]
                                                \/ keys[j] = keys[i] /\ j < i })
  IN [k \in 1..n |-> items[CHOOSE i \in 1..n : rank(i) = k]]

\* (variant: the two middle corners are told apart by x-y)
OrderCornersSwapped(points) ==
  LET corners == StableSort(points, [i \in 1..Len(points) |-> points[i][1] + points[i][2]])
      remaining == StableSort(<< corners[2], corners[3] >>,
                              << corners[2][1] - corners[2][2],
                                 corners[3][1] - corners[3][2] >>)
  IN [top_left |-> corners[1], top_right |-> remaining[1],
      bottom_right |-> corners[4], bottom_left |-> remaining[2]]

\* lines 75-85: the corners in the order top-left, top-right, bottom-right,
\* bottom-left
OrderCorners(points) ==
  LET corners == StableSort(points, [i \in 1..Len(points) |-> points[i][1] + points[i][2]])
      remaining == StableSort(<< corners[2], corners[3] >>,
                              << corners[2][2] - corners[2][1],
                                 corners[3][2] - corners[3][1] >>)
  IN [top_left |-> corners[1], top_right |-> remaining[1],
      bottom_right |-> corners[4], bottom_left |-> remaining[2]]

\* int(np.linalg.norm(q - p)) for integer points: the whole part of the root
SquaredNorm(p, q) == (q[1] - p[1]) * (q[1] - p[1]) + (q[2] - p[2]) * (q[2] - p[2])
IntRoot(n) == CHOOSE k \in 0..1000 : k * k <= n /\ n < (k + 1) * (k + 1)
Larger(a, b) == IF a >= b THEN a ELSE b

\* lines 88-96: square_size
SquareSize(src) ==
  LET width == Larger(SquaredNorm(src.top_left, src.top_right),
                      SquaredNorm(src.bottom_left, src.bottom_right))
      height == Larger(SquaredNorm(src.top_left, src.bottom_left),
                       SquaredNorm(src.top_right, src.bottom_right))
  IN Larger(IntRoot(width), IntRoot(height))

\* line 112: return None
NotFound == [found |-> FALSE]

\* quadrilaterals approxPolyDP can hand to the corner ordering, each with the
\* corners it really has: axis-aligned rectangles, rectangles turned by less
\* than 45 degrees either way, and other convex quadrilaterals whose top edge
\* is level
Quad(kind, tl, tr, br, bl) ==
  [kind |-> kind, top_left |-> tl, top_right |-> tr, bottom_right |-> br,
   bottom_left |-> bl]
AxisRectangles ==
  { Quad("rectangle", << x, y >>, << x + w, y >>, << x + w, y + g >>, << x, y + g >>) :
      x \in {0, 40}, y \in {0, 25}, w \in {200, 320}, g \in {200, 250} }
TurnedRectangles ==
  { Quad("turned", << 500, 500 >>,
         << 500 + 50 * u[1], 500 + 50 * u[2] >>,
         << 500 + 50 * u[1] - 50 * k * u[2], 500 + 50 * u[2] + 50 * k * u[1] >>,
         << 500 - 50 * k * u[2], 500 + 50 * k * u[1] >>) :
      u \in { << 4, 1 >>, << 4, -1 >>, << 3, 2 >>, << 3, -2 >>, << 5, 4 >>, << 5, -4 >> },
      k \in {1, 3} }
ConvexQuads ==
  { Quad("convex", << 50, 0 >>, << 250, 0 >>, << 300, 200 >>, << 0, 200 >>),
    Quad("convex", << 0, 0 >>, << 300, 0 >>, << 250, 200 >>, << 50, 200 >>),
    Quad("convex", << 0, 0 >>, << 1000, 0 >>, << 1000, 100 >>, << 0, 1200 >>) }
Quads == AxisRectangles \cup TurnedRectangles \cup ConvexQuads
\* the orders in which approxPolyDP can list four corners
Orders == { o \in [1..4 -> 1..4] : \A i, j \in 1..4 : o[i] = o[j] => i = j }
Listed(q, o) ==
  LET c == << q.top_left, q.top_right, q.bottom_right, q.bottom_left >>
  IN [i \in 1..4 |-> c[o[i]]]
Unordered == [top_left |-> <<>>]

\* lines 66-112: the loop over the contours from number i on; the warped
\* image is square_size wide and high (line 107)
RECURSIVE ScanContours(_, _)
ScanContours(cs, i) ==
  IF i > Len(cs) THEN NotFound
  ELSE IF Qualifies(cs[i])
       THEN LET src == OrderCorners(cs[i].points)
            IN [found |-> TRUE, contour |-> i, src_pts |-> src,
                width |-> SquareSize(src), height |-> SquareSize(src)]
       ELSE ScanContours(cs, i + 1)

\* lines 40-112: detect_board
DetectBoardResult(cs) == ScanContours(cs, 1)

\* -------------------------------------------------------- move formatter
Files == << "a", "b", "c", "d", "e", "f", "g", "h" >>
Ranks == << "1", "2", "3", "4", "5", "6", "7", "8" >>
FileOf(ch) == CHOOSE i \in 1..8 : Files[i] = ch
RankOf(ch) == CHOOSE i \in 1..8 : Ranks[i] = ch
IsFile(ch) == \E i \in 1..8 : Files[i] = ch
IsRank(ch) == \E i \in 1..8 : Ranks[i] = ch

\* chess_analyzer.py lines 21-28 (piece_names) and the promotion letters of a
\* coordinate move
PieceNames == {"pawn", "knight", "bishop", "rook", "queen", "king"}
PromotionName(ch) ==
  CASE ch = "p" -> "pawn" [] ch = "n" -> "knight" [] ch = "b" -> "bishop"
    [] ch = "r" -> "rook" [] ch = "q" -> "queen" [] ch = "k" -> "king"
IsPromotionSymbol(ch) == ch \in {"p", "n", "b", "r", "q", "k"}

\* line 76: chess.Move.from_uci(move_uci); ok = FALSE when it raises ValueError
FromUci(chars) ==
  LET ok == /\ Len(chars) \in {4, 5}
            /\ IsFile(chars[1]) /\ IsRank(chars[2])
            /\ IsFile(chars[3]) /\ IsRank(chars[4])
            /\ (Len(chars) = 5 => IsPromotionSymbol(chars[5]))
            /\ << chars[1], chars[2] >> # << chars[3], chars[4] >>
  IN IF ok
     THEN [ok |-> TRUE,
           from_square |-> chars[1] \o chars[2],
           to_square |-> chars[3] \o chars[4],
           from_file |-> FileOf(chars[1]),
           to_file |-> FileOf(chars[3]),
           from_rank |-> RankOf(chars[2]),
           to_rank |-> RankOf(chars[4]),
           promotion |-> IF Len(chars) = 5 THEN chars[5] ELSE None]
     ELSE [ok |-> FALSE]

NoPiece == [color |-> None, piece_type |-> None]
Pieces == [color : {"white", "black"}, piece_type : PieceNames]

\* line 72
NoMoveAvailable ==
  << "N", "o", " ", "m", "o", "v", "e", " ", "a", "v", "a", "i", "l", "a", "b", "l", "e" >>
\* line 125: f"Move {move_uci}"
MoveFallback(chars) == << "M", "o", "v", "e", " " >> \o chars

\* lines 86-93
CapturePart(a) ==
  IF a.is_capture /\ a.captured_piece # NoPiece
  THEN << ", capturing the ", a.captured_piece.color, " ", a.captured_piece.piece_type >>
  ELSE <<>>
\* lines 95-99
PromotionPart(move) ==
  IF move.promotion # None
  THEN << ", promoting to a ", PromotionName(move.promotion) >>
  ELSE <<>>
\* lines 101-107
SpecialPart(a, move) ==
  IF a.is_castling
  THEN (IF move.to_file > move.from_file
        THEN << " (kingside castling)" >>
        ELSE << " (queenside castling)" >>)
  ELSE <<>>
\* lines 109-116
CheckPart(a) ==
  IF a.check = "checkmate" THEN << ", checkmate" >>
  ELSE IF a.check = "check" THEN << ", check" >>
  ELSE <<>>

\* lines 60-125: format_move_with_pieces(fen, move_uci); a holds the move
\* text and what chess.Board(fen) answers about the position and the move
FormatMoveWithPieces(a) ==
  IF a.move.absent \/ Len(a.move.chars) = 0 \/ Len(a.move.chars) < 4
  THEN NoMoveAvailable
  ELSE IF ~a.fen_ok \/ ~FromUci(a.move.chars).ok
       THEN MoveFallback(a.move.chars)
       ELSE LET move == FromUci(a.move.chars)
            IN IF a.piece = NoPiece
               THEN << "Move from ", move.from_square, " to ", move.to_square >>
               ELSE << a.piece.color, " ", a.piece.piece_type, " from ",
                       move.from_square, " to ", move.to_square >>
                      \o CapturePart(a) \o PromotionPart(move)
                      \o SpecialPart(a, move) \o CheckPart(a)

\* the move_uci arguments: None, texts too short or too long, texts that are
\* no coordinate move, and coordinate moves
MoveArgs ==
  { [absent |-> TRUE, chars |-> <<>>] } \cup
  { [absent |-> FALSE, chars |-> c] :
      c \in { <<>>, << "e", "2" >>, << "e", "2", "e" >>,
              << "z", "z", "z", "z" >>, << "e", "9", "e", "4" >>,
              << "e", "2", "e", "4", "q", "q" >>,
              << "e", "2", "e", "4" >>, << "e", "4", "d", "5" >>,
              << "e", "5", "d", "6" >>, << "e", "7", "e", "8", "q" >>,
              << "b", "7", "a", "8", "n" >>, << "e", "1", "g", "1" >>,
              << "e", "1", "c", "1" >>, << "d", "8", "h", "4" >> } }

\* the position has no say when the move text is rejected or the origin is empty
NoFacts(a) ==
  /\ a.piece = NoPiece
  /\ ~a.is_capture
  /\ a.captured_piece = NoPiece
  /\ ~a.is_castling
  /\ a.check = "none"

\* answers python-chess can give for a move of the rules: a piece on the
\* destination is an enemy piece and the move a capture; a capture with an
\* empty destination is en passant, a pawn's diagonal step from its fifth
\* rank; castling moves the king two files
ConsistentFacts(a) ==
  LET move == FromUci(a.move.chars)
  IN IF a.move.absent \/ ~a.fen_ok \/ ~move.ok \/ a.piece = NoPiece
     THEN NoFacts(a)
     ELSE /\ a.captured_piece # NoPiece =>
               /\ a.is_capture
               /\ a.captured_piece.color # a.piece.color
               /\ a.captured_piece.piece_type # "king"
          /\ (a.is_capture /\ a.captured_piece = NoPiece) =>
               /\ a.piece.piece_type = "pawn"
               /\ move.to_file - move.from_file \in {-1, 1}
               /\ IF a.piece.color = "white"
                  THEN move.from_rank = 5 /\ move.to_rank = 6
                  ELSE move.from_rank = 4 /\ move.to_rank = 3
               /\ move.promotion = None
          /\ a.is_castling =>
               /\ a.piece.piece_type = "king"
               /\ ~a.is_capture
               /\ move.from_file = 5
               /\ move.to_file \in {3, 7}
          /\ move.promotion # None => a.piece.piece_type = "pawn"

FormatArgs ==
  { a \in [ fen_ok : BOOLEAN, move : MoveArgs, piece : Pieces \cup {NoPiece},
            is_capture : BOOLEAN, captured_piece : Pieces \cup {NoPiece},
            is_castling : BOOLEAN, check : {"none", "check", "checkmate"} ] :
      ConsistentFacts(a) }

\* --------------------------------------------------------- engine answers
Moves == {"e2e4", "d2d4"}
\* info dictionaries analyse can return: keys "pv", "score", "depth" may be absent
Infos ==
  { [depth |-> 0],
    [pv |-> <<"e2e4">>, score |-> [mate |-> FALSE, n |-> 35], depth |-> 18],
    [pv |-> <<"d2d4", "d7d5">>, score |-> [mate |-> TRUE, n |-> 2], depth |-> 12] }
\* result.move of play: a move or None
PlayMoves == Moves \cup {None}

Get(d, k, default) == IF k \in DOMAIN d THEN d[k] ELSE default

\* lines 135-137: pv = [move.uci() for move in info['pv']] if 'pv' in info
ExtractPv(info) == Get(info, "pv", <<>>)

\* line 153: f"{cp/100:.2f}" for an integer number of centipawns
TwoDecimals(cp) ==
  LET a == IF cp < 0 THEN 0 - cp ELSE cp
  IN (IF cp < 0 THEN "-" ELSE "") \o ToString(a \div 100) \o "."
       \o ToString((a % 100) \div 10) \o ToString(a % 10)

\* (variant: a mate distance of zero takes the first wording)
FormatScoreFromZero(info) ==
  IF "score" \notin DOMAIN info THEN None
  ELSE IF info.score.mate
       THEN (IF info.score.n >= 0
             THEN "Mate in " \o ToString(info.score.n)
             ELSE "Mated in " \o ToString(0 - info.score.n))
       ELSE IF "n" \notin DOMAIN info.score THEN "0.00"
       ELSE TwoDecimals(info.score.n)

\* lines 143-153; a centipawn score whose cp is None has no field n
FormatScore(info) ==
  IF "score" \notin DOMAIN info THEN None
  ELSE IF info.score.mate
       THEN (IF info.score.n > 0
             THEN "Mate in " \o ToString(info.score.n)
             ELSE "Mated in " \o ToString(0 - info.score.n))
       ELSE IF "n" \notin DOMAIN info.score THEN "0.00"
       ELSE TwoDecimals(info.score.n)

\* the info dictionaries whose score is formatted: no score, mate distances,
\* centipawn values (small, around a whole pawn, large) and a missing value
ScoreInfos ==
  { [depth |-> 1], [depth |-> 1, score |-> [mate |-> FALSE]] }
  \cup { [depth |-> 1, score |-> [mate |-> TRUE, n |-> k]] : k \in (0 - MaxMate)..MaxMate }
  \cup { [depth |-> 1, score |-> [mate |-> FALSE, n |-> c]] :
           c \in ((0 - MaxCp)..MaxCp) \cup {-2050, -1000, 1005, 1234} }

\* lines 155-160: the dictionary get_best_move returns after a full analysis;
\* pvPos and movePos record which position the engine answered for
AnalysisResult(info, move) ==
  [ best_move |-> move.move,
    score |-> FormatScore(info),
    depth |-> Get(info, "depth", 0),
    pv |-> ExtractPv(info),
    pvPos |-> info.pos,
    movePos |-> move.pos ]

InitError == [error |-> "Could not initialize engine"]
AnalysisError == [error |-> "Analysis error"]
InvalidFenError == [error |-> "Invalid FEN string"]
NoResult == [none |-> TRUE]
QuitReturned == [returned |-> None]
QuitRaised == [raised |-> "AttributeError"]

\* chess_analyzer.py lines 52-58: the dictionary analyze_position builds from
\* the dictionary get_best_move returned
AnalyzerResult(f, r) ==
  [ fen |-> f,
    best_move |-> Get(r, "best_move", None),
    score |-> Get(r, "score", None),
    depth |-> Get(r, "depth", DepthNone),
    pv |-> Get(r, "pv", <<>>) ]

\* ------------------------------------------------------------------ state
VARIABLES
  engine,       \* self.engine: NoEngine or the pid of the process it refers to
  procs,        \* the live engine processes
  spawned,      \* number of processes spawned so far (the last pid)
  lock,         \* self.engine_lock: Unlocked or the thread that holds it
  chan,         \* per process: the position of the request on its pipe, or None
  constructed,  \* __init__ has returned
  closed,       \* a quit() call has terminated the engine and returned
  calls,        \* number of method calls started
  pc,           \* per thread: the statement it is at
  via,          \* per thread: the method it was called through
  fen,          \* per thread: the fen argument
  h,            \* per thread: the handle its current engine operation runs on
  info,         \* per thread: the info dictionary of analyse
  initOutcome,  \* per thread, at line 116: how its own _init_engine call ended
  faulted,      \* an analyse or play on the handle self.engine holds has raised
  ret,          \* the method call that returned in the last step, if one did
  image,        \* board_image: mean luminance of each of the 8x8 cells
  epc,          \* where the recognition step of the pipeline is
  encFailed,    \* get_position_fen went through its except handler
  fenOut,       \* what get_position_fen returned, character by character
  status,       \* text of the status label set by the pipeline
  contours,     \* the contours found in the screenshot, in findContours order
  dpc,          \* where the detection step of the pipeline is
  detected,     \* what detect_board returned
  fargs,        \* the move text and the position format_move_with_pieces gets
  fpc,          \* where the description step of the pipeline is
  description,  \* what format_move_with_pieces returned, part by part
  scoreIn,      \* the info dictionary whose score get_best_move formats
  scoreOut,     \* the score of the result, "pending" until it is formatted
  quad,         \* the quadrilateral in the image, with the corners it has
  corners,      \* approx.reshape(4, 2): its corners as approxPolyDP lists them
  src_pts,      \* the corners as lines 75-85 order them
  apc,          \* the application: "init", "running" or "stopped"
  sessions,     \* per owner: what became of the StockfishEngine it constructs
  analyzing,    \* self.analyzing
  started,      \* number of analyze_position threads started so far
  wpc,          \* per worker thread: the statement of analyze_position it is at
  board,        \* per worker thread: what detect_board returned to it
  ran,          \* per worker thread: the pipeline stages it has invoked
  posted,       \* per worker thread: the notifications of its cycle, in order
  queue,        \* the callbacks scheduled on the Clock and not yet run
  status_label, \* status_label.text: the cycle and the step it reports
  uiFault       \* the exception that left a callback on the UI thread, if any

\* the engine session and its callers
engineState == << engine, procs, spawned, lock, chan, constructed, closed, calls,
                  pc, via, fen, h, info, initOutcome, faulted, ret >>
\* the board detector and its caller
encoderState == << image, epc, encFailed, fenOut, status >>
detectorState == << contours, dpc, detected >>
\* the move formatter and its caller
formatterState == << fargs, fpc, description >>
\* the steps of the analysis pipeline around the engine
\* the score formatting of get_best_move on its own
scoreState == << scoreIn, scoreOut >>
\* the corner ordering of detect_board on its own
cornerState == << quad, corners, src_pts >>
\* the overlay widget, its worker threads and the Clock of the UI thread
appState == << apc, sessions, analyzing, started, wpc, board, ran, posted, queue,
               status_label, uiFault >>
pipelineState == << encoderState, detectorState, formatterState, scoreState,
                   cornerState, appState >>

vars == << engineState, pipelineState >>

session == << engine, procs, spawned, chan >>
flags == << constructed, closed, calls >>
args == << via, fen >>
locals == << h, info, initOutcome >>

NoInfo == [depth |-> 0]
NoReturn == [t |-> 0, via |-> "none", fen |-> None, value |-> NoResult,
             gbm |-> NoResult, initOutcome |-> "none"]

\* no board image is being recognized
EncoderOff ==
  /\ image = UniformImage(130)
  /\ epc = "off"
  /\ encFailed = FALSE
  /\ fenOut = <<>>
  /\ status = ""

\* no screenshot is being searched for a board
DetectorOff ==
  /\ contours = <<>>
  /\ dpc = "off"
  /\ detected = NotFound

\* no move is being described
FormatterOff ==
  /\ fargs = [move |-> [absent |-> TRUE, chars |-> <<>>]]
  /\ fpc = "off"
  /\ description = <<>>

\* no score is being formatted
ScoreOff ==
  /\ scoreIn = NoInfo
  /\ scoreOut = "pending"

\* no corners are being ordered
CornersOff ==
  /\ quad = Quad("none", <<>>, <<>>, <<>>, <<>>)
  /\ corners = <<>>
  /\ src_pts = Unordered

\* the two objects that construct a StockfishEngine of their own
Owners == {"analyzer", "widget"}
\* the analyze_position threads, in the order start_analysis starts them
Workers == 1..MaxCycles
\* what the status label reports: the cycle it belongs to and the step
Notice(cycle, kind) == [cycle |-> cycle, kind |-> kind]
\* a callback handed to Clock.schedule_once
Callback(cycle, kind, best_move) ==
  [cycle |-> cycle, kind |-> kind, best_move |-> best_move]
\* the text the label gets for each notification
StatusText(kind) ==
  CASE kind = "scanning" -> "Scanning for chess board..."
    [] kind = "screenshot" -> "Taking screenshot..."
    [] kind = "detecting" -> "Detecting board..."
    [] kind = "not_detected" -> "Could not detect chess board"
    [] kind = "recognizing" -> "Recognizing position..."
    [] kind = "analyzing" -> "Analyzing with Stockfish..."
    [] kind = "result" -> "Best move:"
    [] kind = "error" -> "Error:"

\* the widget is not built
AppOff ==
  /\ apc = "init"
  /\ sessions = [o \in Owners |-> "absent"]
  /\ analyzing = FALSE
  /\ started = 0
  /\ wpc = [w \in Workers |-> "none"]
  /\ board = [w \in Workers |-> "unknown"]
  /\ ran = [w \in Workers |-> {}]
  /\ posted = [w \in Workers |-> <<>>]
  /\ queue = <<>>
  /\ status_label = Notice(0, "scanning")
  /\ uiFault = "none"

\* every step of the pipeline around the engine is at rest
PipelineOff ==
  EncoderOff /\ DetectorOff /\ FormatterOff /\ ScoreOff /\ CornersOff /\ AppOff

\* __init__ lines 20-23: thread 1 constructs the session and is about to run
\* self._init_engine(); no other thread holds the object yet
Init ==
  /\ PipelineOff
  /\ engine = NoEngine
  /\ procs = {}
  /\ spawned = 0
  /\ lock = Unlocked
  /\ chan = [p \in Pids |-> None]
  /\ constructed = FALSE
  /\ closed = FALSE
  /\ calls = 0
  /\ pc = [t \in Threads |-> IF t = 1 THEN "ie_acquire" ELSE "idle"]
  /\ via = [t \in Threads |-> IF t = 1 THEN "ctor" ELSE "none"]
  /\ fen = [t \in Threads |-> None]
  /\ h = [t \in Threads |-> NoEngine]
  /\ info = [t \in Threads |-> NoInfo]
  /\ initOutcome = [t \in Threads |-> "none"]
  /\ faulted = FALSE
  /\ ret = NoReturn

Goto(t, label) == pc' = [pc EXCEPT ![t] = label]
\* a step in which no method call returns
Silent == ret' = NoReturn /\ UNCHANGED pipelineState

\* ------------------------------------------------------------- the lock
\* (variant: an entry that does not wait for the lock to be free)
LockAcquireNoWait(t) == lock' = t
\* "with self.engine_lock:" entry: blocks until the lock is free
LockAcquire(t) == lock = Unlocked /\ lock' = t
\* normal exit of the with block
LockRelease(t) == lock' = Unlocked
\* (variant: an exception path that leaves the lock held)
LockKeptOnRaise(t) == UNCHANGED lock
\* an exception leaving the with block: __exit__ releases the lock
LockReleaseOnRaise(t) == lock' = Unlocked

\* ------------------------------------------------------------ call sites
\* a thread that holds the constructed session starts a method call
Enter(t, method, f, label) ==
  /\ pc[t] = "idle"
  /\ constructed
  /\ calls < MaxCalls
  /\ calls' = calls + 1
  /\ via' = [via EXCEPT ![t] = method]
  /\ fen' = [fen EXCEPT ![t] = f]
  /\ Goto(t, label)
  /\ Silent
  /\ UNCHANGED << session, lock, constructed, closed, locals, faulted >>

\* the frame of a finished call is dropped
Leave(t) ==
  /\ Goto(t, "idle")
  /\ via' = [via EXCEPT ![t] = "none"]
  /\ fen' = [fen EXCEPT ![t] = None]
  /\ h' = [h EXCEPT ![t] = NoEngine]
  /\ info' = [info EXCEPT ![t] = NoInfo]
  /\ initOutcome' = [initOutcome EXCEPT ![t] = "none"]

\* a method call of thread t hands value v to its caller; g is what the
\* get_best_move inside it returned (NoResult if it was not called)
Returned(t, v, g) ==
  /\ ret' = [t |-> t, via |-> via[t], fen |-> fen[t], value |-> v, gbm |-> g,
             initOutcome |-> initOutcome[t]]
  /\ Leave(t)
  /\ UNCHANGED pipelineState

\* get_best_move returns dictionary r; through analyze_position the caller
\* gets the dictionary built at chess_analyzer.py lines 52-58
Return(t, r) ==
  Returned(t, IF via[t] = "analyzer" THEN AnalyzerResult(fen[t], r) ELSE r, r)

\* ---------------------------------------------------------- _init_engine
\* _init_engine returns to its caller: __init__ (line 23) or get_best_move
\* (line 115, then the test of line 116)
InitEngineReturn(t, outcome) ==
  /\ Silent
  /\ IF via[t] = "ctor"
     THEN /\ Leave(t)
          /\ constructed' = TRUE
     ELSE /\ Goto(t, "gbm_recheck")
          /\ initOutcome' = [initOutcome EXCEPT ![t] = outcome]
          /\ UNCHANGED << constructed, args, h, info >>

\* line 89: with self.engine_lock
InitEngineAcquire(t) ==
  /\ pc[t] = "ie_acquire"
  /\ LockAcquire(t)
  /\ Goto(t, "ie_popen_call")
  /\ Silent
  /\ UNCHANGED << session, flags, args, locals, faulted >>

\* line 90: SimpleEngine.popen_uci(path) is called
PopenCall(t) ==
  /\ pc[t] = "ie_popen_call"
  /\ Goto(t, "ie_popen")
  /\ Silent
  /\ UNCHANGED << session, lock, flags, args, locals, faulted >>

\* line 90: the process is spawned, the handshake done, self.engine assigned
PopenReturn(t) ==
  /\ pc[t] = "ie_popen"
  /\ spawned < MaxSpawn
  /\ spawned' = spawned + 1
  /\ procs' = procs \cup {spawned + 1}
  /\ engine' = spawned + 1
  /\ faulted' = FALSE
  /\ Goto(t, "ie_configure_call")
  /\ Silent
  /\ UNCHANGED << lock, chan, flags, args, locals >>

\* line 90 raises (no binary, handshake failure): the with block is left
PopenRaise(t) ==
  /\ pc[t] = "ie_popen"
  /\ LockReleaseOnRaise(t)
  /\ Goto(t, "ie_except")
  /\ Silent
  /\ UNCHANGED << session, flags, args, locals, faulted >>

\* line 93: self.engine.configure({...}) is called on whatever self.engine
\* holds now; on None the attribute access raises
ConfigureCall(t) ==
  /\ pc[t] = "ie_configure_call"
  /\ IF engine = NoEngine
     THEN /\ LockReleaseOnRaise(t)
          /\ Goto(t, "ie_except")
          /\ UNCHANGED h
     ELSE /\ h' = [h EXCEPT ![t] = engine]
          /\ Goto(t, "ie_configure")
          /\ UNCHANGED lock
  /\ Silent
  /\ UNCHANGED << session, flags, args, info, initOutcome, faulted >>

\* lines 93-96 return: the with block ends and _init_engine returns
ConfigureReturn(t) ==
  /\ pc[t] = "ie_configure"
  /\ h[t] \in procs
  /\ LockRelease(t)
  /\ InitEngineReturn(t, "ok")
  /\ UNCHANGED << session, closed, calls, faulted >>

\* lines 93-96 raise
ConfigureRaise(t) ==
  /\ pc[t] = "ie_configure"
  /\ LockReleaseOnRaise(t)
  /\ Goto(t, "ie_except")
  /\ Silent
  /\ UNCHANGED << session, flags, args, locals, faulted >>

\* lines 97-99: except Exception: self.engine = None (outside the with block)
InitEngineExcept(t) ==
  /\ pc[t] = "ie_except"
  /\ engine' = NoEngine
  /\ faulted' = FALSE
  /\ InitEngineReturn(t, "failed")
  /\ UNCHANGED << procs, spawned, chan, lock, closed, calls >>

\* --------------------------------------------------------- get_best_move
CallGetBestMove(t, f) == Enter(t, "direct", f, "gbm_check")

\* (variant: the re-initialization is entered with engine_lock already taken)
CheckEngineLocked(t) ==
  /\ pc[t] = "gbm_check"
  /\ IF engine = NoEngine
     THEN LockAcquire(t) /\ Goto(t, "ie_acquire")
     ELSE Goto(t, "gbm_parse") /\ UNCHANGED lock
  /\ Silent
  /\ UNCHANGED << session, flags, args, locals, faulted >>

\* line 113: if not self.engine, then line 115: self._init_engine()
CheckEngine(t) ==
  /\ pc[t] = "gbm_check"
  /\ IF engine = NoEngine
     THEN Goto(t, "ie_acquire")
     ELSE Goto(t, "gbm_parse")
  /\ Silent
  /\ UNCHANGED << session, lock, flags, args, locals, faulted >>

\* lines 116-117: if not self.engine: return {"error": "Could not initialize engine"}
RecheckEngine(t) ==
  /\ pc[t] = "gbm_recheck"
  /\ IF engine = NoEngine
     THEN Return(t, InitError)
     ELSE /\ Goto(t, "gbm_parse")
          /\ initOutcome' = [initOutcome EXCEPT ![t] = "none"]
          /\ Silent
          /\ UNCHANGED << args, h, info >>
  /\ UNCHANGED << session, lock, flags, faulted >>

\* line 123: board = chess.Board(fen); a ValueError is caught at line 162
ParseFen(t) ==
  /\ pc[t] = "gbm_parse"
  /\ IF BoardParses(fen[t])
     THEN /\ Goto(t, "gbm_acquire")
          /\ Silent
          /\ UNCHANGED << args, locals >>
     ELSE Return(t, AnalysisError)
  /\ UNCHANGED << session, lock, flags, faulted >>

\* line 129: with self.engine_lock
AnalysisAcquire(t) ==
  /\ pc[t] = "gbm_acquire"
  /\ LockAcquire(t)
  /\ Goto(t, "gbm_analyse_call")
  /\ Silent
  /\ UNCHANGED << session, flags, args, locals, faulted >>

\* an engine request (analyse or play) is called on self.engine: on None
\* the attribute access raises, the with block is left and line 162 catches it;
\* otherwise the position is written to the process's pipe
RequestCall(t, label) ==
  /\ IF engine = NoEngine
     THEN /\ LockReleaseOnRaise(t)
          /\ Return(t, AnalysisError)
          /\ UNCHANGED chan
     ELSE /\ h' = [h EXCEPT ![t] = engine]
          /\ chan' = [chan EXCEPT ![engine] = fen[t]]
          /\ Goto(t, label)
          /\ Silent
          /\ UNCHANGED << lock, args, info, initOutcome >>
  /\ UNCHANGED << engine, procs, spawned, flags, faulted >>

\* (variant: the handler of line 162 drops the handle)
RequestRaiseDropsHandle(t) ==
  /\ LockReleaseOnRaise(t)
  /\ chan' = [chan EXCEPT ![h[t]] = None]
  /\ faulted' = (faulted \/ h[t] = engine)
  /\ Return(t, AnalysisError)
  /\ engine' = NoEngine
  /\ UNCHANGED << procs, spawned, flags >>

\* the request raises (process died, protocol error): caught at line 162
RequestRaise(t) ==
  /\ LockReleaseOnRaise(t)
  /\ chan' = [chan EXCEPT ![h[t]] = None]
  /\ faulted' = (faulted \/ h[t] = engine)
  /\ Return(t, AnalysisError)
  /\ UNCHANGED << engine, procs, spawned, flags >>

\* line 130: info = self.engine.analyse(board, limit) is called
AnalyseCall(t) ==
  /\ pc[t] = "gbm_analyse_call"
  /\ RequestCall(t, "gbm_analyse")

\* line 130 returns: the info is the engine's answer for the position on the pipe
AnalyseReturn(t, a) ==
  /\ pc[t] = "gbm_analyse"
  /\ h[t] \in procs
  /\ info' = [info EXCEPT ![t] = [pos |-> chan[h[t]]] @@ a]
  /\ chan' = [chan EXCEPT ![h[t]] = None]
  /\ Goto(t, "gbm_play_call")
  /\ Silent
  /\ UNCHANGED << engine, procs, spawned, lock, flags, args, h, initOutcome, faulted >>

AnalyseRaise(t) ==
  /\ pc[t] = "gbm_analyse"
  /\ RequestRaise(t)

\* line 139: result = self.engine.play(board, limit) is called
PlayCall(t) ==
  /\ pc[t] = "gbm_play_call"
  /\ RequestCall(t, "gbm_play")

\* lines 139-160: play returns move m for the position on the pipe, the
\* dictionary is built and returned, the with block ends
PlayReturn(t, m) ==
  /\ pc[t] = "gbm_play"
  /\ h[t] \in procs
  /\ chan' = [chan EXCEPT ![h[t]] = None]
  /\ LockRelease(t)
  /\ Return(t, AnalysisResult(info[t], [move |-> m, pos |-> chan[h[t]]]))
  /\ UNCHANGED << engine, procs, spawned, flags, faulted >>

PlayRaise(t) ==
  /\ pc[t] = "gbm_play"
  /\ RequestRaise(t)

\* ------------------------------------------------------ analyze_position
CallAnalyzePosition(t, f) == Enter(t, "analyzer", f, "ap_parse")

\* chess_analyzer.py lines 43-49: chess.Board(fen), on ValueError return the
\* error dictionary, else call self.stockfish.get_best_move(fen, ...)
AnalyzerParse(t) ==
  /\ pc[t] = "ap_parse"
  /\ IF BoardParses(fen[t])
     THEN /\ Goto(t, "gbm_check")
          /\ Silent
          /\ UNCHANGED << args, locals >>
     ELSE Returned(t, InvalidFenError, NoResult)
  /\ UNCHANGED << session, lock, flags, faulted >>

\* ------------------------------------------------------------------ quit
CallQuit(t) == Enter(t, "quit", None, "q_check")

\* line 168: if self.engine
QuitCheck(t) ==
  /\ pc[t] = "q_check"
  /\ IF engine = NoEngine
     THEN Returned(t, QuitReturned, NoResult)
     ELSE /\ Goto(t, "q_acquire")
          /\ Silent
          /\ UNCHANGED << args, locals >>
  /\ UNCHANGED << session, lock, flags, faulted >>

\* (variant: quit goes on to the engine without taking the lock)
QuitWithoutLock(t) ==
  /\ pc[t] = "q_acquire"
  /\ Goto(t, "q_quit_call")
  /\ Silent
  /\ UNCHANGED << session, lock, flags, args, locals, faulted >>

\* line 169: with self.engine_lock
QuitAcquire(t) ==
  /\ pc[t] = "q_acquire"
  /\ LockAcquire(t)
  /\ Goto(t, "q_quit_call")
  /\ Silent
  /\ UNCHANGED << session, flags, args, locals, faulted >>

\* line 170: self.engine.quit() is called on whatever self.engine holds now
QuitCall(t) ==
  /\ pc[t] = "q_quit_call"
  /\ IF engine = NoEngine
     THEN /\ LockReleaseOnRaise(t)
          /\ Returned(t, QuitRaised, NoResult)
     ELSE /\ h' = [h EXCEPT ![t] = engine]
          /\ Goto(t, "q_quit")
          /\ Silent
          /\ UNCHANGED << lock, args, info, initOutcome >>
  /\ UNCHANGED << session, flags, faulted >>

\* line 170 returns: the process has terminated
QuitReturn(t) ==
  /\ pc[t] = "q_quit"
  /\ procs' = procs \ {h[t]}
  /\ Goto(t, "q_clear")
  /\ Silent
  /\ UNCHANGED << engine, spawned, chan, lock, flags, args, locals, faulted >>

\* line 170 raises (the process does not answer): the exception leaves quit
QuitRaise(t) ==
  /\ pc[t] = "q_quit"
  /\ LockReleaseOnRaise(t)
  /\ Returned(t, [raised |-> "EngineError"], NoResult)
  /\ UNCHANGED << session, flags, faulted >>

\* line 171: self.engine = None, the with block ends, quit returns
QuitClear(t) ==
  /\ pc[t] = "q_clear"
  /\ engine' = NoEngine
  /\ faulted' = FALSE
  /\ LockRelease(t)
  /\ Returned(t, QuitReturned, NoResult)
  /\ closed' = TRUE
  /\ UNCHANGED << procs, spawned, chan, constructed, calls >>

\* ------------------------------------------------------- specifications
\* the statements of StockfishEngine's methods
EngineStep(t) ==
  \/ InitEngineAcquire(t)
  \/ PopenCall(t)
  \/ PopenReturn(t)
  \/ PopenRaise(t)
  \/ ConfigureCall(t)
  \/ ConfigureReturn(t)
  \/ ConfigureRaise(t)
  \/ InitEngineExcept(t)
  \/ CheckEngine(t)
  \/ RecheckEngine(t)
  \/ ParseFen(t)
  \/ AnalysisAcquire(t)
  \/ AnalyseCall(t)
  \/ \E a \in Infos : AnalyseReturn(t, a)
  \/ AnalyseRaise(t)
  \/ PlayCall(t)
  \/ \E m \in PlayMoves : PlayReturn(t, m)
  \/ PlayRaise(t)
  \/ QuitCheck(t)
  \/ QuitAcquire(t)
  \/ QuitCall(t)
  \/ QuitReturn(t)
  \/ QuitRaise(t)
  \/ QuitClear(t)

\* threads call analyze_position, get_best_move and quit on one session
Next ==
  \E t \in Threads :
    \/ EngineStep(t)
    \/ \E f \in Fens : CallGetBestMove(t, f)
    \/ \E f \in Fens : CallAnalyzePosition(t, f)
    \/ AnalyzerParse(t)
    \/ CallQuit(t)

Spec == Init /\ [][Next]_vars

\* threads call the StockfishEngine methods directly
NextSession ==
  \E t \in Threads :
    \/ EngineStep(t)
    \/ \E f \in Fens : CallGetBestMove(t, f)
    \/ CallQuit(t)

SpecSession == Init /\ [][NextSession]_vars

\* the statements of the methods when every engine operation returns
AnsweredStep(t) ==
  \/ InitEngineAcquire(t)
  \/ PopenCall(t)
  \/ PopenReturn(t)
  \/ ConfigureCall(t)
  \/ ConfigureReturn(t)
  \/ CheckEngine(t)
  \/ RecheckEngine(t)
  \/ ParseFen(t)
  \/ AnalysisAcquire(t)
  \/ AnalyseCall(t)
  \/ \E a \in Infos : AnalyseReturn(t, a)
  \/ PlayCall(t)
  \/ \E m \in PlayMoves : PlayReturn(t, m)
  \/ QuitCheck(t)
  \/ QuitAcquire(t)
  \/ QuitCall(t)
  \/ QuitReturn(t)
  \/ QuitClear(t)

NextAnswered ==
  \E t \in Threads :
    \/ AnsweredStep(t)
    \/ CallGetBestMove(t, StartFen)
    \/ CallQuit(t)

\* threads call get_best_move and quit on a session whose engine answers
\* every request, and every thread inside a call keeps being scheduled
SpecAnswered ==
  /\ Init
  /\ [][NextAnswered]_vars
  /\ \A t \in Threads : WF_vars(AnsweredStep(t))

\* threads call get_best_move on a session whose construction succeeded and
\* whose engine answers every request
SessionReady ==
  /\ engine = 1
  /\ procs = {1}
  /\ spawned = 1
  /\ lock = Unlocked
  /\ chan = [p \in Pids |-> None]
  /\ constructed = TRUE
  /\ closed = FALSE
  /\ calls = 0
  /\ pc = [t \in Threads |-> "idle"]
  /\ via = [t \in Threads |-> "none"]
  /\ fen = [t \in Threads |-> None]
  /\ h = [t \in Threads |-> NoEngine]
  /\ info = [t \in Threads |-> NoInfo]
  /\ initOutcome = [t \in Threads |-> "none"]
  /\ faulted = FALSE
  /\ ret = NoReturn

InitReady == SessionReady /\ PipelineOff

GetBestMoveStep(t) ==
  \/ CheckEngine(t)
  \/ ParseFen(t)
  \/ AnalysisAcquire(t)
  \/ AnalyseCall(t)
  \/ \E a \in Infos : AnalyseReturn(t, a)
  \/ PlayCall(t)
  \/ \E m \in PlayMoves : PlayReturn(t, m)

NextGetBestMove ==
  \E t \in Threads :
    \/ \E f \in Fens : CallGetBestMove(t, f)
    \/ GetBestMoveStep(t)

\* every thread inside a call keeps being scheduled
SpecGetBestMove ==
  /\ InitReady
  /\ [][NextGetBestMove]_vars
  /\ \A t \in Threads : WF_vars(GetBestMoveStep(t))

\* ------------------------------------------------- position recognition
\* lines 114-169 of board_detector.py: get_position_fen(board_image) returns;
\* any cell's slicing or classification may raise
GetPositionFen ==
  /\ epc = "recognize"
  /\ \E failAt \in 0..64 :
       LET result == GetPositionFenResult(image, failAt)
       IN /\ encFailed' = result.failed
          /\ fenOut' = result.value
  /\ epc' = "check"
  /\ UNCHANGED << image, status, engineState, detectorState, formatterState,
                  scoreState, cornerState, appState >>

\* overlay_app.py lines 143-152: the caller tests the notation it got and
\* goes on to the analysis with it
CheckRecognized ==
  /\ epc = "check"
  /\ IF fenOut = <<>>
     THEN /\ status' = "Could not recognize position"
          /\ epc' = "stopped"
     ELSE /\ status' = "Analyzing with Stockfish..."
          /\ epc' = "analyze"
  /\ UNCHANGED << image, encFailed, fenOut, engineState, detectorState,
                  formatterState, scoreState, cornerState, appState >>

\* overlay_app.py lines 139-143: a rectified board image is handed to the
\* position recognition
InitEncoder ==
  /\ SessionReady
  /\ DetectorOff
  /\ FormatterOff
  /\ ScoreOff
  /\ CornersOff
  /\ AppOff
  /\ image \in Images
  /\ epc = "recognize"
  /\ encFailed = FALSE
  /\ fenOut = <<>>
  /\ status = "Recognizing position..."

NextEncoder == GetPositionFen \/ CheckRecognized

SpecEncoder == InitEncoder /\ [][NextEncoder]_vars

\* ----------------------------------------------------- board detection
\* board_detector.py lines 40-112: detect_board(image) returns
DetectBoard ==
  /\ dpc = "detect"
  /\ detected' = DetectBoardResult(contours)
  /\ dpc' = "check"
  /\ UNCHANGED << contours, encoderState, formatterState, scoreState, cornerState, appState, engineState >>

\* overlay_app.py lines 131-140: the caller stops on None and goes on to the
\* recognition otherwise
CheckDetected ==
  /\ dpc = "check"
  /\ IF detected.found
     THEN /\ status' = "Recognizing position..."
          /\ dpc' = "recognize"
     ELSE /\ status' = "Could not detect chess board"
          /\ dpc' = "stopped"
  /\ UNCHANGED << contours, detected, image, epc, encFailed, fenOut,
                  formatterState, scoreState, cornerState, appState, engineState >>

\* overlay_app.py lines 128-131: a screenshot is handed to the detection
InitDetector ==
  /\ SessionReady
  /\ EncoderOff
  /\ FormatterOff
  /\ ScoreOff
  /\ CornersOff
  /\ AppOff
  /\ contours \in ContourLists(MaxContours)
  /\ dpc = "detect"
  /\ detected = NotFound

NextDetector == DetectBoard \/ CheckDetected

SpecDetector == InitDetector /\ [][NextDetector]_vars

\* ----------------------------------------------------- move description
\* chess_analyzer.py lines 60-125: format_move_with_pieces(fen, move_uci)
\* returns
FormatMove ==
  /\ fpc = "format"
  /\ description' = FormatMoveWithPieces(fargs)
  /\ fpc' = "done"
  /\ UNCHANGED << fargs, encoderState, detectorState, scoreState, cornerState, appState, engineState >>

\* overlay_app.py line 162: a move text and a position are handed to the
\* formatter
InitFormatter ==
  /\ SessionReady
  /\ EncoderOff
  /\ DetectorOff
  /\ ScoreOff
  /\ CornersOff
  /\ AppOff
  /\ fargs \in FormatArgs
  /\ fpc = "format"
  /\ description = <<>>

NextFormatter == FormatMove

SpecFormatter == InitFormatter /\ [][NextFormatter]_vars

\* ------------------------------------------------------ score formatting
\* stockfish_engine.py lines 142-153: the score of the result is built from
\* the info dictionary
FormatScoreStep ==
  /\ scoreOut = "pending"
  /\ scoreOut' = FormatScore(scoreIn)
  /\ UNCHANGED << scoreIn, encoderState, detectorState, formatterState,
                  cornerState, appState, engineState >>

InitScore ==
  /\ SessionReady
  /\ EncoderOff
  /\ DetectorOff
  /\ FormatterOff
  /\ CornersOff
  /\ AppOff
  /\ scoreIn \in ScoreInfos
  /\ scoreOut = "pending"

NextScore == FormatScoreStep

SpecScore == InitScore /\ [][NextScore]_vars

\* ------------------------------------------------------- corner ordering
\* board_detector.py lines 74-85: the four corners are put in order
OrderCornersStep ==
  /\ src_pts = Unordered
  /\ src_pts' = OrderCorners(corners)
  /\ UNCHANGED << quad, corners, encoderState, detectorState, formatterState,
                  scoreState, appState, engineState >>

InitCorners ==
  /\ SessionReady
  /\ EncoderOff
  /\ DetectorOff
  /\ FormatterOff
  /\ ScoreOff
  /\ AppOff
  /\ quad \in Quads
  /\ \E o \in Orders : corners = Listed(quad, o)
  /\ src_pts = Unordered

NextCorners == OrderCornersStep

SpecCorners == InitCorners /\ [][NextCorners]_vars

\* ------------------------------------------------------- the application
OutsideApp ==
  UNCHANGED << engineState, encoderState, detectorState, formatterState,
               scoreState, cornerState >>
WGoto(w, l) == wpc' = [wpc EXCEPT ![w] = l]
\* Clock.schedule_once(callback, 0) from the worker thread
Schedule(w, kind, best_move) ==
  /\ queue' = Append(queue, Callback(w, kind, best_move))
  /\ posted' = [posted EXCEPT ![w] = Append(@, kind)]

\* ChessOverlayWidget.__init__, lines 28-91: the analyzer constructs its
\* engine session (chess_analyzer.py line 18) and the widget a second one
\* (line 34)
BuildWidget ==
  /\ apc = "init"
  /\ apc' = "running"
  /\ sessions' = [o \in Owners |-> "created"]
  /\ analyzing' = FALSE
  /\ status_label' = Notice(0, "scanning")
  /\ UNCHANGED << started, wpc, board, ran, posted, queue, uiFault >>
  /\ OutsideApp

\* start_analysis, lines 109-118, run on the UI thread by the startup timer,
\* the 10-second timer or the button; it returns at once while analyzing
StartAnalysis ==
  /\ apc = "running"
  /\ ~analyzing
  /\ started < MaxCycles
  /\ analyzing' = TRUE
  /\ status_label' = Notice(started + 1, "screenshot")
  /\ started' = started + 1
  /\ wpc' = [wpc EXCEPT ![started + 1] = "shot"]
  /\ posted' = [posted EXCEPT ![started + 1] = << "screenshot" >>]
  /\ UNCHANGED << apc, sessions, board, ran, queue, uiFault >>
  /\ OutsideApp

\* lines 122-128: take_screenshot, which can raise, then the notification
TakeScreenshot(w) ==
  /\ wpc[w] = "shot"
  /\ \/ /\ WGoto(w, "except")
        /\ UNCHANGED << queue, posted >>
     \/ /\ Schedule(w, "detecting", None)
        /\ WGoto(w, "detect")
  /\ UNCHANGED << apc, sessions, analyzing, started, board, ran, status_label,
                  uiFault >>
  /\ OutsideApp

\* lines 131-140: detect_board raises, returns None or returns the board
DetectBoardCall(w) ==
  /\ wpc[w] = "detect"
  /\ \/ /\ WGoto(w, "except")
        /\ UNCHANGED << queue, posted, board >>
     \/ /\ board' = [board EXCEPT ![w] = "none"]
        /\ Schedule(w, "not_detected", None)
        /\ WGoto(w, "nf_clear")
     \/ /\ board' = [board EXCEPT ![w] = "found"]
        /\ Schedule(w, "recognizing", None)
        /\ WGoto(w, "recognize")
  /\ UNCHANGED << apc, sessions, analyzing, started, ran, status_label, uiFault >>
  /\ OutsideApp

\* lines 135-136: self.analyzing = False; return
NotFoundReturn(w) ==
  /\ wpc[w] = "nf_clear"
  /\ analyzing' = FALSE
  /\ WGoto(w, "finally")
  /\ UNCHANGED << apc, sessions, started, board, ran, posted, queue,
                  status_label, uiFault >>
  /\ OutsideApp

\* lines 143-152: get_position_fen, which never returns an empty string, so
\* that line 144 goes on to the notification of line 151
Recognize(w) ==
  /\ wpc[w] = "recognize"
  /\ ran' = [ran EXCEPT ![w] = @ \cup {"encoder"}]
  /\ Schedule(w, "analyzing", None)
  /\ WGoto(w, "analyze")
  /\ UNCHANGED << apc, sessions, analyzing, started, board, status_label,
                  uiFault >>
  /\ OutsideApp

\* lines 155-169: the analyzer asks its session; the result has a best move or
\* none; update_analysis_results is scheduled and the move is spoken
Analyze(w) ==
  /\ wpc[w] = "analyze"
  /\ ran' = [ran EXCEPT ![w] = @ \cup {"engine"}]
  /\ sessions' = [sessions EXCEPT !["analyzer"] = "used"]
  /\ \E best_move \in {None} \cup Moves : Schedule(w, "result", best_move)
  /\ WGoto(w, "finally")
  /\ UNCHANGED << apc, analyzing, started, board, status_label, uiFault >>
  /\ OutsideApp

\* lines 171-173: the handler schedules a callback that reads e
ExceptPost(w) ==
  /\ wpc[w] = "except"
  /\ Schedule(w, "error", None)
  /\ WGoto(w, "except_exit")
  /\ UNCHANGED << apc, sessions, analyzing, started, board, ran, status_label,
                  uiFault >>
  /\ OutsideApp

\* the end of the handler of line 171, where e is unbound
ExceptExit(w) ==
  /\ wpc[w] = "except_exit"
  /\ WGoto(w, "finally")
  /\ UNCHANGED << apc, sessions, analyzing, started, board, ran, posted, queue,
                  status_label, uiFault >>
  /\ OutsideApp

\* (variant: a finally block that leaves the flag as it is)
FinallyKeepsFlag(w) ==
  /\ wpc[w] = "finally"
  /\ WGoto(w, "done")
  /\ UNCHANGED << apc, sessions, analyzing, started, board, ran, posted, queue,
                  status_label, uiFault >>
  /\ OutsideApp

\* lines 174-175: finally: self.analyzing = False
Finally(w) ==
  /\ wpc[w] = "finally"
  /\ analyzing' = FALSE
  /\ WGoto(w, "done")
  /\ UNCHANGED << apc, sessions, started, board, ran, posted, queue,
                  status_label, uiFault >>
  /\ OutsideApp

WorkerStep(w) ==
  \/ TakeScreenshot(w)
  \/ DetectBoardCall(w)
  \/ NotFoundReturn(w)
  \/ Recognize(w)
  \/ Analyze(w)
  \/ ExceptPost(w)
  \/ ExceptExit(w)
  \/ Finally(w)

\* the Clock runs the oldest scheduled callback on the UI thread: a status
\* lambda (lines 127, 133, 139, 151), update_analysis_results (lines 177-183),
\* which sets the label and then slices best_move, or the lambda of line 172,
\* which reads e; an exception that leaves the callback ends App.run
RunCallback ==
  /\ apc = "running"
  /\ queue # <<>>
  /\ LET cb == Head(queue)
     IN /\ queue' = Tail(queue)
        /\ CASE cb.kind = "result" ->
                  /\ status_label' = Notice(cb.cycle, "result")
                  /\ IF cb.best_move = None
                     THEN uiFault' = "TypeError" /\ apc' = "stopped"
                     ELSE UNCHANGED << uiFault, apc >>
             [] cb.kind = "error" ->
                  IF wpc[cb.cycle] = "except_exit"
                  THEN /\ status_label' = Notice(cb.cycle, "error")
                       /\ UNCHANGED << uiFault, apc >>
                  ELSE /\ uiFault' = "NameError"
                       /\ apc' = "stopped"
                       /\ UNCHANGED status_label
             [] OTHER ->
                  /\ status_label' = Notice(cb.cycle, cb.kind)
                  /\ UNCHANGED << uiFault, apc >>
  /\ UNCHANGED << sessions, analyzing, started, wpc, board, ran, posted >>
  /\ OutsideApp

\* ChessOverlayApp, lines 288-321: the application stops; no handler of the
\* application calls quit() on either session
StopApp ==
  /\ apc = "running"
  /\ apc' = "stopped"
  /\ UNCHANGED << sessions, analyzing, started, wpc, board, ran, posted, queue,
                  status_label, uiFault >>
  /\ OutsideApp

InitApp ==
  /\ SessionReady
  /\ EncoderOff
  /\ DetectorOff
  /\ FormatterOff
  /\ ScoreOff
  /\ CornersOff
  /\ AppOff

NextApp ==
  \/ BuildWidget
  \/ StartAnalysis
  \/ RunCallback
  \/ StopApp
  \/ \E w \in Workers : WorkerStep(w)

SpecApp == InitApp /\ [][NextApp]_vars

\* every started worker thread keeps running
SpecAppFair ==
  InitApp /\ [][NextApp]_vars /\ \A w \in Workers : WF_vars(WorkerStep(w))

\* ------------------------------------------------------------ properties
\* a thread at one of these is executing an engine operation
EngineOpPcs == {"ie_popen", "ie_configure", "gbm_analyse", "gbm_play", "q_quit"}
\* a thread at one of these is inside a "with self.engine_lock" block
LockedPcs == {"ie_popen_call", "ie_popen", "ie_configure_call", "ie_configure",
              "gbm_analyse_call", "gbm_analyse", "gbm_play_call", "gbm_play",
              "q_quit_call", "q_quit", "q_clear"}
WaitingPcs == {"ie_acquire", "gbm_acquire", "q_acquire"}
AnalysisPcs == {"gbm_analyse_call", "gbm_analyse", "gbm_play_call", "gbm_play"}
IsError(r) == "error" \in DOMAIN r
IsAnalysis(r) == "best_move" \in DOMAIN r /\ "pvPos" \in DOMAIN r

\* C1: at most one thread at a time executes an engine operation (spawn,
\* configure, analyse, play, quit), and the thread that does holds engine_lock.
C1_MutualExclusion ==
  /\ Cardinality({t \in Threads : pc[t] \in EngineOpPcs}) <= 1
  /\ \A t \in Threads : pc[t] \in EngineOpPcs => lock = t

\* one thread executes an engine operation while another waits for the lock
C1_Witness ==
  \E t, u \in Threads :
    /\ t # u
    /\ pc[t] \in EngineOpPcs
    /\ pc[u] \in WaitingPcs

\* C2: concurrent get_best_move calls on an initialized session all return;
\* analyse and play of one request run under one lock acquisition with no
\* other request between them, and pv, score and best move of a result are
\* the engine's answers for the caller's own position.
C2_Serialized ==
  /\ [](\A t \in Threads : pc[t] \in AnalysisPcs => lock = t)
  /\ [][\A t \in Threads :
          (pc[t] \in AnalysisPcs /\ pc'[t] # "idle") => lock' = t]_vars
  /\ [](ret.t # 0 =>
          /\ IsAnalysis(ret.value) = BoardParses(ret.fen)
          /\ IsAnalysis(ret.value) =>
               /\ ret.value.pvPos = ret.fen
               /\ ret.value.movePos = ret.fen)
  /\ \A t \in Threads : (pc[t] # "idle") ~> (ret.t = t /\ pc[t] = "idle")

\* a call returns its analysis while another thread is inside its own call
C2_Witness ==
  /\ ret.t # 0
  /\ IsAnalysis(ret.value)
  /\ \E u \in Threads : u # ret.t /\ pc[u] = "gbm_acquire" /\ fen[u] # ret.fen

\* C3: once quit() has completed, the handle stays empty and no engine
\* process is spawned again.
C3_ClosedIsAbsorbing ==
  closed => (engine = NoEngine /\ \A t \in Threads : pc[t] # "ie_popen")

\* C4: a result with a non-empty pv has the pv's first move as best_move.
C4_BestMoveHeadsPv ==
  (ret.t # 0 /\ IsAnalysis(ret.gbm) /\ ret.gbm.pv # <<>>) =>
     ret.gbm.best_move = ret.gbm.pv[1]

\* C5: for a notation that does not parse, no engine operation is started
\* (the thread never enters _init_engine or the analysis section), and the
\* call returns an error.
C5_InvalidNeverReachesEngine ==
  /\ \A t \in Threads :
       (via[t] \in {"direct", "analyzer"} /\ ~BoardParses(fen[t])) =>
          pc[t] \notin (LockedPcs \cup WaitingPcs)
  /\ (ret.t # 0 /\ ret.via \in {"direct", "analyzer"} /\ ~BoardParses(ret.fen)) =>
        IsError(ret.value)

\* a position is legal only if each side has exactly one king
KingCount(f, k) ==
  Cardinality({ sq \in (1..8) \X (1..8) :
                  /\ sq[2] <= Len(Rows(f)[sq[1]])
                  /\ Rows(f)[sq[1]][sq[2]] = k })
IsLegalPosition(f) ==
  /\ BoardParses(f)
  /\ KingCount(f, "K") = 1
  /\ KingCount(f, "k") = 1

\* C6: analyse and play are invoked on legal positions only.
C6_OnlyLegalAnalysed ==
  \A t \in Threads : pc[t] \in {"gbm_analyse", "gbm_play"} => IsLegalPosition(fen[t])

\* C7: engine_lock is held only by a thread inside a lock-guarded block; a
\* thread that has left one, normally or by an exception, does not hold it.
C7_LockReleased ==
  /\ \A t \in Threads : lock = t => pc[t] \in LockedPcs
  /\ ret.t # 0 => lock # ret.t

\* a call returns the error of an engine operation that raised inside the block
C7_Witness ==
  /\ ret.t # 0
  /\ ret.value = AnalysisError
  /\ faulted
  /\ lock = Unlocked

C9_FailureReachesCaller ==
  (ret.t # 0 /\ ret.via = "analyzer" /\ IsError(ret.gbm)) => IsError(ret.value)

\* C10: after its one re-initialization attempt get_best_move returns the
\* engine-unavailable error if the attempt failed, and goes on to parse and
\* analyse if it succeeded; it never re-initializes twice.
C10_LazyReinit ==
  [][\A t \in Threads :
       (pc[t] = "gbm_recheck" /\ pc'[t] # "gbm_recheck") =>
          /\ initOutcome[t] = "failed" =>
               (pc'[t] = "idle" /\ ret'.t = t /\ ret'.gbm = InitError)
          /\ initOutcome[t] = "ok" => pc'[t] = "gbm_parse"]_vars

\* C11: the session has at most one live engine process of its own, and a
\* live process is the one self.engine refers to (none runs without a handle).
C11_OneProcessOwned ==
  /\ Cardinality(procs) <= 1
  /\ procs \subseteq {engine}

\* the placement field of a notation: its characters up to the first space
RECURSIVE PlacementField(_)
PlacementField(chars) ==
  IF chars = <<>> \/ Head(chars) = " " THEN <<>>
  ELSE << Head(chars) >> \o PlacementField(Tail(chars))

\* a placement cut at its "/" separators (field is the rank being read)
RECURSIVE SplitRanks(_, _)
SplitRanks(chars, field) ==
  IF chars = <<>> THEN << field >>
  ELSE IF Head(chars) = "/"
       THEN << field >> \o SplitRanks(Tail(chars), <<>>)
       ELSE SplitRanks(Tail(chars), Append(field, Head(chars)))

\* a rank field read back: a digit stands for that many empty squares
RECURSIVE ExpandRank(_)
ExpandRank(field) ==
  IF field = <<>> THEN <<>>
  ELSE (IF Head(field) \in DOMAIN DigitValue
        THEN [i \in 1..DigitValue[Head(field)] |-> " "]
        ELSE << Head(field) >>) \o ExpandRank(Tail(field))

RanksOf(chars) == SplitRanks(PlacementField(chars), <<>>)

\* the grid a notation decodes to: row 0 is the first rank field (rank 8)
DecodeGrid(chars) ==
  LET ranks == RanksOf(chars)
  IN [r \in Index |-> LET squares == ExpandRank(ranks[r + 1])
                      IN [c \in Index |-> squares[c + 1]]]

Recognized == epc # "recognize" /\ ~encFailed

\* C12: the label classified from image row r, column c is written at rank
\* 8-r, file c: image row 0 is the first rank field of the notation.
C12_TopRowIsRankEight ==
  Recognized =>
    \A r \in Index, c \in Index :
      DecodeGrid(fenOut)[r][c] = DetectPieceOnSquare(image[r][c])

\* C13: the placement _board_to_fen writes has exactly 7 separators, every
\* rank field adds up to 8 squares, and it decodes to the grid encoded.
C13_EncodeDecodeRoundTrip ==
  Recognized =>
    /\ Cardinality({ i \in 1..Len(PlacementField(fenOut)) :
                       PlacementField(fenOut)[i] = "/" }) = 7
    /\ Len(RanksOf(fenOut)) = 8
    /\ \A k \in 1..8 : RowWidth(RanksOf(fenOut)[k]) = 8
    /\ \A k \in 1..8 : Len(ExpandRank(RanksOf(fenOut)[k])) = 8
    /\ DecodeGrid(fenOut) = ClassifyCells(image, 64)

\* a board with pieces next to each other, runs of empty squares before and
\* after them and empty rows has been encoded
C13_Witness ==
  /\ Recognized
  /\ \E k \in 1..8 : RanksOf(fenOut)[k] \in { << "P", "p", "6" >>, << "6", "p", "P" >> }
  /\ \E k \in 1..8 : RanksOf(fenOut)[k] = << "8" >>

\* the empty band of the specification: from 90 up to but not including 170
MidBand == LowerBound..(UpperBound - 1)

\* C14: a board whose 64 squares all have a mid-band mean luminance is
\* returned as 8/8/8/8/8/8/8/8 w KQkq - 0 1.
C14_MidBandBoardIsEmpty ==
  (Recognized /\ \A r \in Index, c \in Index : image[r][c] \in MidBand) =>
     Text(fenOut) = EmptyFen

\* the label the specification gives a mean luminance
BandLabel(l) ==
  IF l >= UpperBound THEN "P" ELSE IF l < LowerBound THEN "p" ELSE " "

\* C15: every mean luminance 0..255 gets one label: white pawn from 170 up,
\* black pawn below 90, empty from 90 up to but not including 170.
C15_ClassifierBands ==
  Recognized =>
    \A r \in Index, c \in Index :
      DecodeGrid(fenOut)[7 - r][c] = BandLabel(image[r][c])

\* C16: when a cell's slicing or classification raises, get_position_fen
\* returns the notation of the initial position, nothing of the board filled
\* so far, and the caller goes on to the analysis with it.
C16_FailureFallsBack ==
  (epc # "recognize" /\ encFailed) =>
     /\ Text(fenOut) = StartFen
     /\ epc \in {"check", "analyze"}
     /\ status # "Could not recognize position"

\* the recognition of a board with pieces on it failed and the caller has
\* gone on to the analysis
C16_Witness ==
  /\ encFailed
  /\ epc = "analyze"
  /\ \E r \in Index, c \in Index : image[r][c] \notin MidBand

\* a sequence of characters that is a placement of 8 well-formed ranks
IsNotation(chars) ==
  /\ Len(RanksOf(chars)) = 8
  /\ \A k \in 1..8 : RowOk(RanksOf(chars)[k])

\* C17: a failed encoding is returned as a failure outcome, not as a
\* position notation: the encoder itself does not substitute the fallback.
C17_FailureIsDistinguishable ==
  (epc # "recognize" /\ encFailed) =>
     /\ fenOut # FallbackFen
     /\ ~IsNotation(fenOut)

\* the two conditions of a board contour
IsBoardContour(c) == c.vertices = 4 /\ c.area > MinBoardSize * MinBoardSize
BoardContours(cs) == { i \in 1..Len(cs) : IsBoardContour(cs[i]) }

\* C18: detect_board returns NotFound exactly when no contour has four
\* vertices and an area strictly above min_board_size squared; otherwise it
\* rectifies the first such contour in scan order, and the rectified image is
\* square: its width and its height both equal the computed side.
C18_DetectsFirstBoardContour ==
  dpc # "detect" =>
    LET boards == BoardContours(contours)
    IN /\ detected.found <=> boards # {}
       /\ detected.found =>
            /\ detected.contour \in boards
            /\ \A i \in boards : detected.contour <= i
            /\ detected.width = detected.height
            /\ detected.width = SquareSize(OrderCorners(contours[detected.contour].points))
            /\ detected.width > 0

\* a board was found behind a quadrilateral whose area is exactly the threshold
C18_Witness ==
  /\ dpc = "recognize"
  /\ detected.found
  /\ detected.contour > 1
  /\ \E i \in 1..(detected.contour - 1) :
       /\ contours[i].vertices = 4
       /\ contours[i].area = MinBoardSize * MinBoardSize

\* text contains sub as a run of consecutive characters
Contains(text, sub) ==
  \E i \in 0..(Len(text) - Len(sub)) : SubSeq(text, i + 1, i + Len(sub)) = sub
\* a move text that is too short or is no coordinate move
Malformed(move) ==
  /\ ~move.absent
  /\ Len(move.chars) > 0
  /\ (Len(move.chars) < 4 \/ ~FromUci(move.chars).ok)

\* C19: when the move text handed to format_move_with_pieces is malformed
\* (too short, or not a valid coordinate move), the fallback string it
\* returns contains that raw move text.
C19_FallbackNamesRawMove ==
  (fpc = "done" /\ Malformed(fargs.move)) =>
    Contains(description, fargs.move.chars)

\* a well-formed move from an occupied origin square of a valid position
WellFormed(a) ==
  /\ ~a.move.absent
  /\ a.fen_ok
  /\ Len(a.move.chars) >= 4
  /\ FromUci(a.move.chars).ok
  /\ a.piece # NoPiece
OtherColor(c) == IF c = "white" THEN "black" ELSE "white"
\* the piece a capture takes: the one on the destination, or the pawn an en
\* passant capture removes
Victim(a) ==
  IF a.captured_piece # NoPiece THEN a.captured_piece
  ELSE [color |-> OtherColor(a.piece.color), piece_type |-> "pawn"]
\* the sentence with each optional part present exactly when its condition holds
Sentence(a) ==
  LET move == FromUci(a.move.chars)
  IN << a.piece.color, " ", a.piece.piece_type, " from ", move.from_square,
        " to ", move.to_square >>
     \o (IF a.is_capture
         THEN << ", capturing the ", Victim(a).color, " ", Victim(a).piece_type >>
         ELSE <<>>)
     \o (IF move.promotion # None
         THEN << ", promoting to a ", PromotionName(move.promotion) >>
         ELSE <<>>)
     \o (IF a.is_castling
         THEN << IF move.to_file > move.from_file THEN " (kingside castling)"
                 ELSE " (queenside castling)" >>
         ELSE <<>>)
     \o (CASE a.check = "checkmate" -> << ", checkmate" >>
           [] a.check = "check" -> << ", check" >>
           [] OTHER -> <<>>)
\* the white pawn's quiet move e2e4
QuietPawnMove(a) ==
  /\ WellFormed(a)
  /\ a.move.chars = << "e", "2", "e", "4" >>
  /\ a.piece = [color |-> "white", piece_type |-> "pawn"]
  /\ ~a.is_capture
  /\ a.check = "none"

\* C20: for a well-formed move from an occupied origin square the description
\* is "<color> <piece> from <origin> to <destination>" followed by the capture,
\* promotion, castling and check/checkmate parts in that order, each present
\* exactly when the move captures, promotes, castles or gives check/checkmate;
\* the quiet move e2e4 of a white pawn gives exactly "white pawn from e2 to e4".
C20_SentenceHasExactlyItsParts ==
  (fpc = "done" /\ WellFormed(fargs)) =>
    /\ Text(description) = Text(Sentence(fargs))
    /\ QuietPawnMove(fargs) => Text(description) = "white pawn from e2 to e4"

\* C23: however a get_best_move call interleaves with a quit call, analyse
\* and play run on a live engine process only, and the call returns either an
\* error dictionary or a complete result the engine produced before quit
\* tore the session down.
C23_CompletesOrTornDown ==
  /\ \A t \in Threads : pc[t] \in {"gbm_analyse", "gbm_play"} => h[t] \in procs
  /\ (ret.t # 0 /\ ret.via = "direct") =>
        \/ IsError(ret.value)
        \/ IsAnalysis(ret.value) /\ ~closed

\* C29: a quit call never raises: a quit after a completed quit, and each of
\* two quit calls racing on a ready session, returns normally, and no call
\* invokes quit on an emptied handle.
C29_QuitNeverRaises ==
  (ret.t # 0 /\ ret.via = "quit") => ret.value # QuitRaised

\* C30: no thread waits for engine_lock while it holds it (the lazy
\* re-initialization of get_best_move runs before the lock-guarded analysis
\* section), and every caller that waits for the lock eventually holds it.
C30_NoSelfDeadlock ==
  /\ [](\A t \in Threads : pc[t] \in WaitingPcs => lock # t)
  /\ \A t \in Threads : (pc[t] \in WaitingPcs) ~> (lock = t)

\* a get_best_move call that re-initialized the engine under the lock holds
\* the lock again for its analysis on the new process
C30_Witness ==
  \E t \in Threads :
    /\ via[t] = "direct"
    /\ pc[t] = "gbm_analyse"
    /\ lock = t
    /\ h[t] = 2

\* a number below one hundred written with two digits
TwoDigits(k) == IF k < 10 THEN "0" \o ToString(k) ELSE ToString(k)
\* the hundredths c as a number of units with exactly two decimals
Hundredths(c) ==
  IF c < 0 THEN "-" \o ToString((0 - c) \div 100) \o "." \o TwoDigits((0 - c) % 100)
  ELSE ToString(c \div 100) \o "." \o TwoDigits(c % 100)

\* C27: the score of a result is "Mate in N" for a mate distance N > 0,
\* "Mated in |N|" for N <= 0, otherwise the centipawn value divided by 100
\* with exactly two decimals ("0.00" when the value is missing), and it is
\* absent exactly when the engine reported no score.
C27_ScoreText ==
  scoreOut # "pending" =>
    /\ (scoreOut = None) <=> ("score" \notin DOMAIN scoreIn)
    /\ "score" \in DOMAIN scoreIn =>
         LET score == scoreIn.score
         IN IF score.mate
            THEN /\ score.n > 0 => scoreOut = "Mate in " \o ToString(score.n)
                 /\ score.n <= 0 => scoreOut = "Mated in " \o ToString(0 - score.n)
            ELSE IF "n" \in DOMAIN score
                 THEN scoreOut = Hundredths(score.n)
                 ELSE scoreOut = "0.00"

\* a mate distance of zero was formatted
C27_Witness ==
  /\ scoreOut = "Mated in 0"
  /\ scoreIn.score = [mate |-> TRUE, n |-> 0]

PointSum(p) == p[1] + p[2]
PointDiff(p) == p[2] - p[1]
\* the output holds each of the four points once, top-left has the least
\* x+y, bottom-right the greatest, top-right the smaller y-x of the other two
OrderedBySumAndDiff ==
  LET out == << src_pts.top_left, src_pts.top_right, src_pts.bottom_right,
                src_pts.bottom_left >>
  IN /\ \E o \in Orders : out = [i \in 1..4 |-> corners[o[i]]]
     /\ \A i \in 1..4 : /\ PointSum(src_pts.top_left) <= PointSum(corners[i])
                        /\ PointSum(src_pts.bottom_right) >= PointSum(corners[i])
     /\ PointDiff(src_pts.top_right) <= PointDiff(src_pts.bottom_left)
\* the output names each corner of the quadrilateral as it is
CornersAsTheyAre ==
  /\ src_pts.top_left = quad.top_left
  /\ src_pts.top_right = quad.top_right
  /\ src_pts.bottom_right = quad.bottom_right
  /\ src_pts.bottom_left = quad.bottom_left

C21_NoBestMoveNoException ==
  uiFault # "TypeError"

Active(w) == wpc[w] \notin {"none", "done"}
\* C28: at most one analyze_position thread runs at any time.
C28_OneWorker ==
  Cardinality({w \in Workers : Active(w)}) <= 1

\* C24: once the widget is built there is exactly one engine session, the
\* analysis calls use it, and it is quit when the application has stopped.
C24_OneSession ==
  /\ apc # "init" => Cardinality({o \in Owners : sessions[o] # "absent"}) = 1
  /\ apc = "stopped" => \A o \in Owners : sessions[o] \in {"absent", "quit"}

\* the place of a notification in its cycle
StepOf(kind) ==
  CASE kind \in {"scanning", "screenshot"} -> 1
    [] kind = "detecting" -> 2
    [] kind \in {"recognizing", "not_detected"} -> 3
    [] kind = "analyzing" -> 4
    [] kind \in {"result", "error"} -> 5
Earlier(a, b) ==
  \/ a.cycle < b.cycle
  \/ a.cycle = b.cycle /\ StepOf(a.kind) < StepOf(b.kind)
\* C25: the notifications of a cycle are posted in the fixed order, and the
\* label never shows a status of an earlier step after a status of a later
\* step of the same cycle, nor a status of an earlier cycle after one of a
\* later cycle.
C25_StatusInOrder ==
  [][ /\ \A w \in Workers : \A i \in 1..Len(posted'[w]) :
           i > 1 => StepOf(posted'[w][i - 1]) < StepOf(posted'[w][i])
      /\ ~Earlier(status_label', status_label) ]_vars

\* C22: a cycle in which detect_board finds nothing invokes neither the
\* encoder nor the engine and posts 'Could not detect chess board', and every
\* started cycle ends with the analyzing flag cleared, so that a later trigger
\* starts a fresh cycle.
C22_NotFoundEndsCycle ==
  /\ [](\A w \in Workers :
          board[w] = "none" =>
            /\ ran[w] = {}
            /\ wpc[w] \in {"nf_clear", "finally", "done"}
            /\ posted[w] = << "screenshot", "detecting", "not_detected" >>)
  /\ \A w \in Workers : Active(w) ~> (wpc[w] = "done" /\ ~analyzing)
C22_Witness ==
  /\ started = MaxCycles
  /\ board[1] = "none"
  /\ wpc[1] = "done"
  /\ wpc[MaxCycles] = "shot"
  /\ analyzing

====
